---- MODULE Spec2Model ----
(***************************************************************************)
(* A model of the Gateio exchange wrapper                                  *)
(* (exchanges/gateio/gateio_wrapper.go): the cached reads, the refreshes   *)
(* of ticker, order book and account, the order queries with the paginated *)
(* websocket branch, and the unsupported operations.                       *)
(*                                                                         *)
(* Amounts and prices are float64 in the source; the model uses small      *)
(* naturals, on which float64 addition and subtraction are exact.          *)
(* Every wrapper call is one action, except the paginated websocket branch *)
(* of GetActiveOrders, which takes one step per page fetched.              *)
(***************************************************************************)
EXTENDS Integers, Sequences, FiniteSets, TLC

VARIABLES
    wsUsable,     \* answer of Websocket.CanUseAuthenticatedWebsocketForWrapper()
    tickerCache,  \* ticker package store, per pair
    obCache,      \* orderbook package store, per pair
    acctCache,    \* account package store (holdings of this exchange)
    op,           \* the wrapper call made last (or in progress)
    ret,          \* its returned value
    err,          \* its returned error
    probes,       \* capability probes made by the call
    path,         \* the path the call selected: "ws", "rest" or "none"
    wsReqs,       \* websocket requests issued by the call
    restReqs,     \* REST requests issued by the call
    pubs,         \* cache publishes (Process calls) made by the call
    pc,           \* "idle", or "paging" inside the GetActiveOrders loop
    orders,       \* the accumulator of GetActiveOrders
    i,            \* the offset variable of the pagination loop
    req,          \* the arguments of the call (and the enabled pairs it read)
    rawIn,        \* the responses the executor and the channel gave the call
    calls         \* per concurrent caller: the refresh it is in, and its local value

vars == <<wsUsable, tickerCache, obCache, acctCache, op, ret, err, probes, path,
          wsReqs, restReqs, pubs, pc, orders, i, req, rawIn, calls>>

(***************************************************************************)
(* Bounds of the model.                                                    *)
(***************************************************************************)
MaxAmount == 2      \* amounts and prices range over 0..MaxAmount
NumCallers == 2     \* wrapper calls that may run at the same time
MaxFetches == 4     \* page fetches the model lets one call make

(***************************************************************************)
(* Errors.                                                                 *)
(***************************************************************************)
ErrNil == "nil"
\* errors the request executor / websocket channel may return
TransportErrors == {"timeout", "connection reset"}
ErrFunctionNotSupported == "unsupported wrapper function"
ErrNotYetImplemented == "not yet implemented"
ErrParseFloat == "strconv.ParseFloat: invalid syntax"
ErrAccountProcess == "account: cannot process holdings"
ErrOrderbookProcess == "orderbook: cannot process"
ErrTickerNotFound == "ticker: no ticker for pair"
ErrOrderbookNotFound == "orderbook: no orderbook for pair"

Name == "GateIO"

(***************************************************************************)
(* Decimal strings.                                                        *)
(***************************************************************************)
Digits == <<"0", "1", "2", "3", "4", "5", "6", "7", "8", "9">>

\* strconv.FormatInt(n, 10) on 0..9
FormatInt(n) == Digits[n + 1]

\* strconv.ParseFloat(s, 64) on the strings of the model
ParseFloat(s) ==
    IF \E n \in 0..9 : Digits[n + 1] = s
      THEN [val |-> CHOOSE n \in 0..9 : Digits[n + 1] = s, err |-> ErrNil]
      ELSE [val |-> 0, err |-> ErrParseFloat]

Amounts == 0..MaxAmount
AmountStrings == {FormatInt(n) : n \in Amounts}

\* the orders in which a Go range statement may visit the keys of a map
Orderings(S) ==
    {s \in [1..Cardinality(S) -> S] : \A a, b \in 1..Cardinality(S) : s[a] = s[b] => a = b}

(***************************************************************************)
(* Account: balances.                                                      *)
(***************************************************************************)
CurrencyNames == {"BTC", "ETH"}

\* currency.NewCode: the code of a currency name
NewCode(x) == x

ZeroHoldings == [Exchange |-> "", Accounts |-> <<>>]
NoHoldings == [found |-> FALSE, v |-> ZeroHoldings]

\* the locked-only record of line 346: Hold set, TotalValue left at zero
LockedBalance(x, lockedF) ==
    [CurrencyName |-> NewCode(x), TotalValue |-> 0, Hold |-> lockedF]

RECURSIVE LockedLoop_SkipBad(_, _, _)
LockedLoop_SkipBad(l, keys, balances) ==
    IF keys = <<>> THEN [err |-> ErrNil, balances |-> balances]
    ELSE LET x == Head(keys)
             p == ParseFloat(l[x])
         IN  IF p.err # ErrNil
               THEN LockedLoop_SkipBad(l, Tail(keys), balances)
               ELSE LockedLoop_SkipBad(l, Tail(keys),
                                       Append(balances, LockedBalance(x, p.val)))

RECURSIVE LockedLoop(_, _, _)
\* lines 340-350: one record per key of balance.Locked
LockedLoop(l, keys, balances) ==
    IF keys = <<>> THEN [err |-> ErrNil, balances |-> balances]
    ELSE LET x == Head(keys)
             p == ParseFloat(l[x])
         IN  IF p.err # ErrNil
               THEN [err |-> p.err, balances |-> balances]
               ELSE LockedLoop(l, Tail(keys), Append(balances, LockedBalance(x, p.val)))

\* lines 364-370: index of the record of a currency, 0 when there is none
IndexOfCode(balances, code) ==
    IF \E k \in 1..Len(balances) : balances[k].CurrencyName = code
      THEN CHOOSE k \in 1..Len(balances) :
               /\ balances[k].CurrencyName = code
               /\ \A j \in 1..(k - 1) : balances[j].CurrencyName # code
      ELSE 0

RECURSIVE AvailableLoop(_, _, _)
\* lines 357-377: merge balance.Available into the records
AvailableLoop(v, keys, balances) ==
    IF keys = <<>> THEN [err |-> ErrNil, balances |-> balances]
    ELSE LET x == Head(keys)
             p == ParseFloat(v[x])
             k == IndexOfCode(balances, NewCode(x))
         IN  IF p.err # ErrNil
               THEN [err |-> p.err, balances |-> balances]
               ELSE AvailableLoop(v, Tail(keys),
                      IF k # 0
                        THEN [balances EXCEPT ![k].TotalValue = balances[k].Hold + p.val]
                        ELSE Append(balances,
                               [CurrencyName |-> NewCode(x), TotalValue |-> p.val, Hold |-> 0]))

\* a value of the interface{} fields Locked / Available: a map of strings, or
\* something else (the default branch of the type switch)
MapsOver(S, V) == UNION {[D -> V] : D \in SUBSET S}
BalanceFields(C, V) ==
    {[isMap |-> TRUE, m |-> m] : m \in MapsOver(C, V)}
      \cup {[isMap |-> FALSE, m |-> <<>>]}

\* what GetBalances may return
RestBalanceResponses(C, V) ==
    {[err |-> e, Locked |-> [isMap |-> FALSE, m |-> <<>>],
      Available |-> [isMap |-> FALSE, m |-> <<>>]] : e \in TransportErrors}
      \cup {[err |-> ErrNil, Locked |-> l, Available |-> a] :
               l \in BalanceFields(C, V), a \in BalanceFields(C, V)}

\* lines 333-384: the REST branch, visiting the keys in the orders lkeys, akeys
RestAccount(balance, lkeys, akeys) ==
    IF balance.err # ErrNil
      THEN [done |-> FALSE, err |-> balance.err, info |-> ZeroHoldings]
      ELSE LET lk == IF balance.Locked.isMap THEN lkeys ELSE <<>>
               ak == IF balance.Available.isMap THEN akeys ELSE <<>>
               l == LockedLoop(balance.Locked.m, lk, <<>>)
               a == AvailableLoop(balance.Available.m, ak, l.balances)
           IN  IF l.err # ErrNil
                 THEN [done |-> FALSE, err |-> l.err, info |-> ZeroHoldings]
               ELSE IF a.err # ErrNil
                 THEN [done |-> FALSE, err |-> a.err, info |-> ZeroHoldings]
               ELSE [done |-> TRUE, err |-> ErrNil,
                     info |-> [Exchange |-> "",
                               Accounts |-> <<[Currencies |-> a.balances]>>]]

\* what wsGetBalance may return: per currency the available and frozen amounts
WsBalanceResponses(C, A, F) ==
    {[err |-> e, Result |-> <<>>] : e \in TransportErrors}
      \cup {[err |-> ErrNil, Result |-> m] :
               m \in MapsOver(C, [Available : A, Freeze : F])}

RECURSIVE WsCurrData(_, _)
\* lines 322-328
WsCurrData(result, keys) ==
    IF keys = <<>> THEN <<>>
    ELSE LET k == Head(keys)
         IN  <<[CurrencyName |-> NewCode(k),
                TotalValue |-> result[k].Available + result[k].Freeze,
                Hold |-> result[k].Freeze]>> \o WsCurrData(result, Tail(keys))

\* lines 317-331: the websocket branch
WsAccount(resp, keys) ==
    IF resp.err # ErrNil
      THEN [done |-> FALSE, err |-> resp.err, info |-> ZeroHoldings]
      ELSE [done |-> TRUE, err |-> ErrNil,
            info |-> [Exchange |-> "",
                      Accounts |-> <<[Currencies |-> WsCurrData(resp.Result, keys)]>>]]

CanUse_Reused == path = "ws"

\* g.Websocket.CanUseAuthenticatedWebsocketForWrapper()
CanUseAuthenticatedWebsocketForWrapper == wsUsable

\* lines 387-393: name the holdings, hand them to account.Process, return
AccountFinish(r, cacheOk) ==
    IF ~r.done
      THEN /\ ret' = r.info
           /\ err' = r.err
           /\ pubs' = <<>>
           /\ UNCHANGED acctCache
      ELSE LET info == [r.info EXCEPT !.Exchange = Name]
           IN  /\ pubs' = <<[cache |-> "account", key |-> Name, value |-> info]>>
               /\ IF cacheOk
                    THEN /\ acctCache' = [found |-> TRUE, v |-> info]
                         /\ ret' = info
                         /\ err' = ErrNil
                    ELSE /\ UNCHANGED acctCache
                         /\ ret' = ZeroHoldings
                         /\ err' = ErrAccountProcess

\* lines 312-394, for the REST payloads RB and the websocket payloads WB
UpdateAccountInfoBody(WB, RB) ==
    /\ probes' = 1
    /\ IF CanUseAuthenticatedWebsocketForWrapper
         THEN /\ path' = "ws"
              /\ wsReqs' = <<[method |-> "balance.query", offset |-> 0, limit |-> 0]>>
              /\ restReqs' = <<>>
              /\ \E resp \in WB, cacheOk \in BOOLEAN :
                   \E keys \in Orderings(DOMAIN resp.Result) :
                     /\ rawIn' = <<resp>>
                     /\ AccountFinish(WsAccount(resp, keys), cacheOk)
         ELSE /\ path' = "rest"
              /\ wsReqs' = <<>>
              /\ restReqs' = <<"GetBalances">>
              /\ \E balance \in RB, cacheOk \in BOOLEAN :
                   \E lkeys \in Orderings(DOMAIN balance.Locked.m),
                      akeys \in Orderings(DOMAIN balance.Available.m) :
                     /\ rawIn' = <<balance>>
                     /\ AccountFinish(RestAccount(balance, lkeys, akeys), cacheOk)

UpdateAccountInfo(WB, RB) ==
    /\ pc = "idle"
    /\ op' = "UpdateAccountInfo"
    /\ UpdateAccountInfoBody(WB, RB)
    /\ UNCHANGED <<calls, wsUsable, tickerCache, obCache, pc>>
    /\ orders' = <<>>
    /\ i' = 0
    /\ req' = <<>>

FetchAccountInfo_AlwaysRefresh(WB, RB) ==
    /\ pc = "idle"
    /\ op' = "FetchAccountInfo"
    /\ UpdateAccountInfoBody(WB, RB)
    /\ UNCHANGED <<calls, wsUsable, tickerCache, obCache, pc>>
    /\ orders' = <<>>
    /\ i' = 0
    /\ req' = <<>>

\* lines 397-404
FetchAccountInfo(WB, RB) ==
    /\ pc = "idle"
    /\ op' = "FetchAccountInfo"
    /\ IF acctCache.found
         THEN /\ ret' = acctCache.v
              /\ err' = ErrNil
              /\ probes' = 0
              /\ path' = "none"
              /\ wsReqs' = <<>>
              /\ restReqs' = <<>>
              /\ pubs' = <<>>
              /\ rawIn' = <<>>
              /\ UNCHANGED acctCache
         ELSE UpdateAccountInfoBody(WB, RB)
    /\ UNCHANGED <<calls, wsUsable, tickerCache, obCache, pc>>
    /\ orders' = <<>>
    /\ i' = 0
    /\ req' = <<>>

(***************************************************************************)
(* Strings: case folding on the strings of the model.                      *)
(***************************************************************************)
\* strings.ToUpper
ToUpper(s) ==
    CASE s = "btc_usdt" -> "BTC_USDT"
      [] s = "eth_btc"  -> "ETH_BTC"
      [] s = "btc"      -> "BTC"
      [] s = "eth"      -> "ETH"
      [] s = "usdt"     -> "USDT"
      [] s = "buy"      -> "BUY"
      [] s = "sell"     -> "SELL"
      [] s = "Sell"     -> "SELL"
      [] s = "ask"      -> "ASK"
      [] s = "bid"      -> "BID"
      [] s = "hold"     -> "HOLD"
      [] OTHER          -> s

EqualFold_Exact(a, b) == a = b

\* strings.EqualFold
EqualFold(a, b) == ToUpper(a) = ToUpper(b)

(***************************************************************************)
(* Currency pairs.                                                         *)
(***************************************************************************)
ZeroPair == [Base |-> "", Quote |-> "", Delimiter |-> ""]

\* the pairs of the model, in the two casings a pair format may give them
PairsUpper == {[Base |-> "BTC", Quote |-> "USDT", Delimiter |-> "_"],
               [Base |-> "ETH", Quote |-> "BTC", Delimiter |-> "_"]}
PairsLower == {[Base |-> "btc", Quote |-> "usdt", Delimiter |-> "_"],
               [Base |-> "eth", Quote |-> "btc", Delimiter |-> "_"]}

\* currency.Pair.String()
PairString(p) == p.Base \o p.Delimiter \o p.Quote

\* the key under which the ticker and orderbook stores hold a pair
PairKey(p) == <<ToUpper(p.Base), ToUpper(p.Quote)>>
PairKeys == {PairKey(p) : p \in PairsUpper}

\* currency.NewPairFromString / currency.NewPairDelimiter on the symbols of the model
NewPairFromString(s) ==
    IF \E p \in PairsUpper \cup PairsLower : PairString(p) = s
      THEN CHOOSE p \in PairsUpper \cup PairsLower : PairString(p) = s
      ELSE [Base |-> s, Quote |-> "", Delimiter |-> ""]

\* the lists g.GetEnabledPairs may return over the pairs P: no pair twice
EnabledPairLists(P) ==
    UNION {{s \in [1..n -> P] :
              \A a, b \in 1..n : PairKey(s[a]) = PairKey(s[b]) => a = b} : n \in 0..2}

(***************************************************************************)
(* Ticker.                                                                 *)
(***************************************************************************)
ZeroTicker ==
    [Last |-> 0, High |-> 0, Low |-> 0, Volume |-> 0, QuoteVolume |-> 0,
     Open |-> 0, Close |-> 0, Pair |-> ZeroPair]
NoTicker == [found |-> FALSE, v |-> ZeroTicker]

\* entries of the raw ticker map (prices in hundredths)
TickerEntryA ==
    [Last |-> 5, High |-> 6, Low |-> 4, Open |-> 3, Close |-> 7,
     BaseVolume |-> 100, QuoteVolume |-> 8]
TickerEntryB ==
    [Last |-> 15, High |-> 16, Low |-> 14, Open |-> 13, Close |-> 17,
     BaseVolume |-> 200, QuoteVolume |-> 18]

\* what GetTickers may return over the keys K and the entries E; the keys of a
\* response are the exchange's symbols, one key per symbol in some casing
TickerResponses(K, E) ==
    {[err |-> e, result |-> <<>>] : e \in TransportErrors}
      \cup {[err |-> ErrNil, result |-> m] :
              m \in {f \in MapsOver(K, E) :
                       \A a, b \in DOMAIN f : EqualFold(a, b) => a = b}}

\* lines 236-245
TickerPrice(r, pair) ==
    [Last |-> r.Last, High |-> r.High, Low |-> r.Low, Volume |-> r.BaseVolume,
     QuoteVolume |-> r.QuoteVolume, Open |-> r.Open, Close |-> r.Close, Pair |-> pair]

\* ticker.ProcessTicker: the store takes the ticker unless it rejects the pair
ProcessTicker(st, tp, accepted) ==
    [cache |-> IF PairKey(tp.Pair) \in accepted
                 THEN [st.cache EXCEPT ![PairKey(tp.Pair)] = [found |-> TRUE, v |-> tp]]
                 ELSE st.cache,
     pubs |-> Append(st.pubs, [cache |-> "ticker", key |-> PairKey(tp.Pair), value |-> tp])]

RECURSIVE TickerKeyLoop(_, _, _, _, _)
\* lines 232-250: the raw keys matching one enabled pair
TickerKeyLoop(result, keys, pair, accepted, st) ==
    IF keys = <<>> THEN st
    ELSE IF ~EqualFold(Head(keys), PairString(pair))
      THEN TickerKeyLoop(result, Tail(keys), pair, accepted, st)
      ELSE TickerKeyLoop(result, Tail(keys), pair, accepted,
                         ProcessTicker(st, TickerPrice(result[Head(keys)], pair), accepted))

RECURSIVE TickerPairLoop(_, _, _, _, _)
\* lines 231-251: the enabled pairs, in order
TickerPairLoop(result, keys, pairs, accepted, st) ==
    IF pairs = <<>> THEN st
    ELSE TickerPairLoop(result, keys, Tail(pairs), accepted,
                        TickerKeyLoop(result, keys, Head(pairs), accepted, st))

\* ticker.GetTicker
GetTicker(cache, p) ==
    IF cache[PairKey(p)].found
      THEN [v |-> cache[PairKey(p)].v, err |-> ErrNil]
      ELSE [v |-> ZeroTicker, err |-> ErrTickerNotFound]

\* lines 224-254, for the responses TR and the enabled pair lists PL
UpdateTickerBody(p, TR, PL) ==
    /\ probes' = 0
    /\ path' = "rest"
    /\ wsReqs' = <<>>
    /\ restReqs' = <<"GetTickers">>
    /\ \E resp \in TR :
         /\ rawIn' = <<resp>>
         /\ IF resp.err # ErrNil
           THEN /\ ret' = ZeroTicker
                /\ err' = resp.err
                /\ pubs' = <<>>
                /\ req' = [p |-> p, pairs |-> <<>>]
                /\ UNCHANGED tickerCache
           ELSE \E pairs \in PL, accepted \in SUBSET PairKeys :
                  \E keys \in Orderings(DOMAIN resp.result) :
                    LET st == TickerPairLoop(resp.result, keys, pairs, accepted,
                                             [cache |-> tickerCache, pubs |-> <<>>])
                        got == GetTicker(st.cache, p)
                    IN  /\ tickerCache' = st.cache
                        /\ pubs' = st.pubs
                        /\ req' = [p |-> p, pairs |-> pairs]
                        /\ ret' = got.v
                        /\ err' = got.err

UpdateTicker(P, TR, PL) ==
    /\ pc = "idle"
    /\ op' = "UpdateTicker"
    /\ \E p \in P : UpdateTickerBody(p, TR, PL)
    /\ UNCHANGED <<calls, wsUsable, obCache, acctCache, pc>>
    /\ orders' = <<>>
    /\ i' = 0

\* lines 257-263
FetchTicker(P, TR, PL) ==
    /\ pc = "idle"
    /\ op' = "FetchTicker"
    /\ \E p \in P :
         LET tickerNew == GetTicker(tickerCache, p)
         IN  IF tickerNew.err # ErrNil
               THEN UpdateTickerBody(p, TR, PL)
               ELSE /\ ret' = tickerNew.v
                    /\ err' = ErrNil
                    /\ probes' = 0
                    /\ path' = "none"
                    /\ wsReqs' = <<>>
                    /\ restReqs' = <<>>
                    /\ pubs' = <<>>
                    /\ req' = [p |-> p, pairs |-> <<>>]
                    /\ rawIn' = <<>>
                    /\ UNCHANGED tickerCache
    /\ UNCHANGED <<calls, wsUsable, obCache, acctCache, pc>>
    /\ orders' = <<>>
    /\ i' = 0

(***************************************************************************)
(* Order book.                                                             *)
(***************************************************************************)
ZeroOrderbook ==
    [Pair |-> ZeroPair, ExchangeName |-> "", AssetType |-> "", Bids |-> <<>>, Asks |-> <<>>]
NoOrderbook == [found |-> FALSE, v |-> ZeroOrderbook]

\* what GetOrderbook may return over the level lists L
OrderbookResponses(L) ==
    {[err |-> e, Bids |-> <<>>, Asks |-> <<>>] : e \in TransportErrors}
      \cup {[err |-> ErrNil, Bids |-> b, Asks |-> a] : b \in L, a \in L}

\* level lists of the model: unsorted, as received
LevelLists ==
    {<<>>,
     <<[Price |-> 1, Amount |-> 2]>>,
     <<[Price |-> 2, Amount |-> 1], [Price |-> 1, Amount |-> 2]>>}

RECURSIVE CopyLevels(_)
\* lines 284-296: each level copied as it comes
CopyLevels(levels) ==
    IF levels = <<>> THEN <<>>
    ELSE <<[Amount |-> Head(levels).Amount, Price |-> Head(levels).Price]>>
           \o CopyLevels(Tail(levels))

\* orderbook.Get
GetOrderbookCached(cache, p) ==
    IF cache[PairKey(p)].found
      THEN [v |-> cache[PairKey(p)].v, err |-> ErrNil]
      ELSE [v |-> ZeroOrderbook, err |-> ErrOrderbookNotFound]

\* lines 275-308, for the responses OR
UpdateOrderbookBody(p, OR) ==
    /\ probes' = 0
    /\ path' = "rest"
    /\ wsReqs' = <<>>
    /\ restReqs' = <<"GetOrderbook">>
    /\ req' = [p |-> p]
    /\ \E orderbookNew \in OR, cacheOk \in BOOLEAN :
         /\ rawIn' = <<orderbookNew>>
         /\ IF orderbookNew.err # ErrNil
           THEN /\ ret' = ZeroOrderbook
                /\ err' = orderbookNew.err
                /\ pubs' = <<>>
                /\ UNCHANGED obCache
           ELSE LET orderBook == [Pair |-> p, ExchangeName |-> Name, AssetType |-> "spot",
                                  Bids |-> CopyLevels(orderbookNew.Bids),
                                  Asks |-> CopyLevels(orderbookNew.Asks)]
                IN  /\ pubs' = <<[cache |-> "orderbook", key |-> PairKey(p),
                                  value |-> orderBook]>>
                    /\ IF cacheOk
                         THEN /\ obCache' = [obCache EXCEPT
                                               ![PairKey(p)] = [found |-> TRUE, v |-> orderBook]]
                              /\ ret' = GetOrderbookCached(obCache', p).v
                              /\ err' = GetOrderbookCached(obCache', p).err
                         ELSE /\ UNCHANGED obCache
                              /\ ret' = orderBook
                              /\ err' = ErrOrderbookProcess

UpdateOrderbook(P, OR) ==
    /\ pc = "idle"
    /\ op' = "UpdateOrderbook"
    /\ \E p \in P : UpdateOrderbookBody(p, OR)
    /\ UNCHANGED <<calls, wsUsable, tickerCache, acctCache, pc>>
    /\ orders' = <<>>
    /\ i' = 0

\* lines 266-272
FetchOrderbook(P, OR) ==
    /\ pc = "idle"
    /\ op' = "FetchOrderbook"
    /\ \E p \in P :
         LET ob == GetOrderbookCached(obCache, p)
         IN  IF ob.err # ErrNil
               THEN UpdateOrderbookBody(p, OR)
               ELSE /\ ret' = ob.v
                    /\ err' = ErrNil
                    /\ probes' = 0
                    /\ path' = "none"
                    /\ wsReqs' = <<>>
                    /\ restReqs' = <<>>
                    /\ pubs' = <<>>
                    /\ req' = [p |-> p]
                    /\ rawIn' = <<>>
                    /\ UNCHANGED obCache
    /\ UNCHANGED <<calls, wsUsable, tickerCache, acctCache, pc>>
    /\ orders' = <<>>
    /\ i' = 0

(***************************************************************************)
(* Unsupported operations.                                                 *)
(***************************************************************************)
\* a call that returns at once: no probe, no request, no publish
ReturnsAtOnce(name, value, error) ==
    /\ pc = "idle"
    /\ op' = name
    /\ ret' = value
    /\ err' = error
    /\ probes' = 0
    /\ path' = "none"
    /\ wsReqs' = <<>>
    /\ restReqs' = <<>>
    /\ pubs' = <<>>
    /\ UNCHANGED <<calls, wsUsable, tickerCache, obCache, acctCache, pc>>
    /\ orders' = <<>>
    /\ i' = 0
    /\ req' = <<>>
    /\ rawIn' = <<>>

GetFundingHistory_Empty == ReturnsAtOnce("GetFundingHistory", <<>>, ErrNil)

\* lines 408-410
GetFundingHistory == ReturnsAtOnce("GetFundingHistory", <<>>, ErrFunctionNotSupported)

\* lines 413-415
GetExchangeHistory == ReturnsAtOnce("GetExchangeHistory", <<>>, ErrNotYetImplemented)

\* lines 456-458
ModifyOrder == ReturnsAtOnce("ModifyOrder", "", ErrFunctionNotSupported)

\* lines 549-551
WithdrawFiatFunds == ReturnsAtOnce("WithdrawFiatFunds", "", ErrFunctionNotSupported)

\* lines 555-557
WithdrawFiatFundsToInternationalBank ==
    ReturnsAtOnce("WithdrawFiatFundsToInternationalBank", "", ErrFunctionNotSupported)

(***************************************************************************)
(* Orders.                                                                 *)
(***************************************************************************)
PageSize == 100

\* order.Side and order.Type values
Buy == "BUY"
Sell == "SELL"
Ask == "ASK"
Bid == "BID"
AnySide == "ANY"
Limit == "LIMIT"
Market == "MARKET"

\* time.Time: the zero time, and time.Unix(sec, nsec)
ZeroTime == [zero |-> TRUE, sec |-> 0, nsec |-> 0]
TimeUnix(sec, nsec) == [zero |-> FALSE, sec |-> sec, nsec |-> nsec]

\* order.Detail with every field at its zero value
ZeroDetail ==
    [Exchange |-> "", AccountID |-> "", ID |-> "", CurrencyPair |-> ZeroPair,
     OrderSide |-> "", OrderType |-> "", OrderDate |-> ZeroTime, Status |-> "",
     Price |-> 0, Amount |-> 0, ExecutedAmount |-> 0, RemainingAmount |-> 0, Fee |-> 0]

\* convert.SplitFloatDecimals on a timestamp given by its decimal digits: the
\* whole part, the digits after the point, or an error for a number above MaxInt64
SplitFloatDecimals(ctime) ==
    IF ctime.tooLarge
      THEN [first |-> 0, dec |-> 0, err |-> "number too large to split into integers"]
      ELSE [first |-> ctime.base, dec |-> ctime.dec, err |-> ErrNil]

\* order.FilterOrdersByTickRange
FilterOrdersByTickRange(os, startTicks, endTicks) ==
    IF \/ startTicks.zero
       \/ endTicks.zero
       \/ startTicks.sec = 0
       \/ endTicks.sec = 0
       \/ endTicks.sec < startTicks.sec
      THEN os
      ELSE SelectSeq(os, LAMBDA o : /\ o.OrderDate.sec >= startTicks.sec
                                    /\ o.OrderDate.sec <= endTicks.sec)

\* order.FilterOrdersBySide
FilterOrdersBySide(os, side) ==
    IF side = "" \/ side = AnySide
      THEN os
      ELSE SelectSeq(os, LAMBDA o : EqualFold(o.OrderSide, side))

\* lines 648-650
FilterOrders(os, r) ==
    FilterOrdersBySide(FilterOrdersByTickRange(os, r.StartTicks, r.EndTicks), r.OrderSide)

\* the requests of the model
OrdersRequest(side, startTicks, endTicks) ==
    [OrderSide |-> side, OrderType |-> AnySide, StartTicks |-> startTicks,
     EndTicks |-> endTicks, Currencies |-> <<"btc_usdt">>]
OrdersRequests ==
    {OrdersRequest("", ZeroTime, ZeroTime),
     OrdersRequest(Sell, ZeroTime, ZeroTime),
     OrdersRequest(AnySide, TimeUnix(2, 0), TimeUnix(2, 0))}

\* lines 588-591
WsSide(type) == IF type = 1 THEN Sell ELSE Buy

\* lines 592-595
WsOrderType(orderType) == IF orderType = 1 THEN Limit ELSE Market

\* line 612
WsRemaining(r) == r.Left

\* lines 601-614
WsDetail(r, orderDate) ==
    [ZeroDetail EXCEPT
       !.Exchange = Name,
       !.AccountID = FormatInt(r.User),
       !.ID = FormatInt(r.ID),
       !.CurrencyPair = NewPairFromString(r.Market),
       !.OrderSide = WsSide(r.Type),
       !.OrderType = WsOrderType(r.OrderType),
       !.OrderDate = orderDate,
       !.Price = r.Price,
       !.Amount = r.Amount,
       !.ExecutedAmount = r.FilledAmount,
       !.RemainingAmount = WsRemaining(r),
       !.Fee = r.DealFee]

\* lines 587-615: the records of one page appended to acc, up to the first
\* record whose timestamp cannot be split
WsRecordLoop(records, acc) ==
    LET bad == {j \in 1..Len(records) : SplitFloatDecimals(records[j].Ctime).err # ErrNil}
        stop == IF bad = {} THEN Len(records) + 1
                ELSE CHOOSE j \in bad : \A k \in bad : j <= k
        date(j) == LET sp == SplitFloatDecimals(records[j].Ctime)
                   IN  TimeUnix(sp.first, sp.dec)
    IN  [err |-> IF bad = {} THEN ErrNil ELSE SplitFloatDecimals(records[stop].Ctime).err,
         orders |-> acc \o [j \in 1..(stop - 1) |-> WsDetail(records[j], date(j))]]

\* websocket order records of the model
WsRecord(type, orderType, filled, left, ctime) ==
    [ID |-> 1, User |-> 7, Market |-> "btc_usdt", Ctime |-> ctime, Type |-> type,
     OrderType |-> orderType, Price |-> 1, Amount |-> MaxAmount, FilledAmount |-> filled,
     Left |-> left, DealFee |-> 0]

CtimeOk == [tooLarge |-> FALSE, base |-> 2, dec |-> 5]
CtimeTooLarge == [tooLarge |-> TRUE, base |-> 0, dec |-> 0]

WsSellLimit == WsRecord(1, 1, 1, MaxAmount - 1, CtimeOk)
WsBuyMarket == WsRecord(0, 0, 0, MaxAmount, CtimeOk)
\* a side and type code outside the known set, and a stale Left
WsUnknown == WsRecord(2, 2, 1, MaxAmount, CtimeOk)
WsBadTime == WsRecord(1, 1, 0, MaxAmount, CtimeTooLarge)

\* a page of n records: r, and l as the last one
Page(n, r, l) == [k \in 1..n |-> IF k = n THEN l ELSE r]

\* what wsGetOrderInfo may return: full pages over F, short pages of 37 records
\* over the pairs S of a record and a last record, and the empty page
WsPageResponses(F, S) ==
    {[err |-> e, records |-> <<>>] : e \in TransportErrors}
      \cup {[err |-> ErrNil, records |-> Page(PageSize, r, r)] : r \in F}
      \cup {[err |-> ErrNil, records |-> Page(37, rl[1], rl[2])] : rl \in S}
      \cup {[err |-> ErrNil, records |-> <<>>]}

\* REST open orders of the model: the id gives the pair and the timestamp
OpenOrder(id, type, status, filled) ==
    [OrderNumber |-> id, Type |-> type, Status |-> status, Rate |-> 1,
     Amount |-> MaxAmount, InitialAmount |-> MaxAmount, FilledAmount |-> filled,
     CurrencyPair |-> IF id = "1" THEN "btc_usdt" ELSE "eth_btc",
     Timestamp |-> IF id = "1" THEN 1 ELSE 2]

SeqsUpTo(S, n) == UNION {[1..k -> S] : k \in 0..n}

\* what GetOpenOrders may return over the orders O
OpenOrdersResponses(O) ==
    {[err |-> e, Orders |-> <<>>] : e \in TransportErrors}
      \cup {[err |-> ErrNil, Orders |-> os] : os \in SeqsUpTo(O, 2)}

\* line 633: order.Side(strings.ToUpper(type))
RestSide(type) == ToUpper(type)

\* lines 635-645
RestDetail(o) ==
    [ZeroDetail EXCEPT
       !.ID = o.OrderNumber,
       !.Amount = o.Amount,
       !.Price = o.Rate,
       !.RemainingAmount = o.FilledAmount,
       !.OrderDate = TimeUnix(o.Timestamp, 0),
       !.OrderSide = RestSide(o.Type),
       !.Exchange = Name,
       !.CurrencyPair = NewPairFromString(o.CurrencyPair),
       !.Status = o.Status]

RECURSIVE RestOrderLoop(_)
\* lines 626-646: the open orders, others skipped
RestOrderLoop(os) ==
    IF os = <<>> THEN <<>>
    ELSE IF Head(os).Status # "open" THEN RestOrderLoop(Tail(os))
    ELSE <<RestDetail(Head(os))>> \o RestOrderLoop(Tail(os))

ShortPage_AtMost(records) == Len(records) <= PageSize

\* line 616: the page that ends the loop
ShortPage(records) == Len(records) < PageSize

\* lines 574-580 and 620-650: the capability probe, and the REST branch in one step
GetActiveOrdersBegin(OO) ==
    /\ pc = "idle"
    /\ op' = "GetActiveOrders"
    /\ probes' = 1
    /\ pubs' = <<>>
    /\ \E r \in OrdersRequests :
         /\ req' = r
         /\ IF CanUseAuthenticatedWebsocketForWrapper
              THEN /\ path' = "ws"
                   /\ pc' = "paging"
                   /\ orders' = <<>>
                   /\ i' = 0
                   /\ wsReqs' = <<>>
                   /\ restReqs' = <<>>
                   /\ rawIn' = <<>>
                   /\ ret' = <<>>
                   /\ err' = ErrNil
              ELSE /\ path' = "rest"
                   /\ wsReqs' = <<>>
                   /\ restReqs' = <<"GetOpenOrders">>
                   /\ \E resp \in OO :
                        /\ rawIn' = <<resp>>
                        /\ IF resp.err # ErrNil
                          THEN /\ ret' = <<>>
                               /\ err' = resp.err
                               /\ orders' = <<>>
                          ELSE /\ orders' = RestOrderLoop(resp.Orders)
                               /\ ret' = FilterOrders(orders', r)
                               /\ err' = ErrNil
                   /\ i' = 0
                   /\ UNCHANGED pc
    /\ UNCHANGED <<calls, wsUsable, tickerCache, obCache, acctCache>>

\* lines 581-619: one iteration of the loop
GetActiveOrdersPage(F, S) ==
    /\ pc = "paging"
    /\ Len(wsReqs) < MaxFetches
    /\ \E resp \in WsPageResponses(F, S) :
         /\ wsReqs' = Append(wsReqs, [method |-> "order.query", offset |-> i,
                                      limit |-> PageSize,
                                      got |-> IF resp.err # ErrNil THEN -1
                                              ELSE Len(resp.records)])
         /\ rawIn' = Append(rawIn, resp)
         /\ IF resp.err # ErrNil
              THEN /\ ret' = orders
                   /\ err' = resp.err
                   /\ pc' = "idle"
                   /\ UNCHANGED <<orders, i>>
              ELSE LET t == WsRecordLoop(resp.records, orders)
                   IN  /\ orders' = t.orders
                       /\ IF t.err # ErrNil
                            THEN /\ ret' = t.orders
                                 /\ err' = t.err
                                 /\ pc' = "idle"
                                 /\ UNCHANGED i
                          ELSE IF ShortPage(resp.records)
                            THEN /\ ret' = FilterOrders(t.orders, req)
                                 /\ err' = ErrNil
                                 /\ pc' = "idle"
                                 /\ UNCHANGED i
                          ELSE /\ i' = i + PageSize
                               /\ UNCHANGED <<ret, err, pc>>
    /\ UNCHANGED <<calls, wsUsable, tickerCache, obCache, acctCache, op, probes, path,
                   restReqs, pubs, req>>

ErrFailedToGetOpenOrders == "failed to get open orders"
ErrNoOrderFound == "no order found with id"

\* lines 517-521
InfoSide(type) ==
    IF EqualFold(type, Ask) THEN Ask
    ELSE IF EqualFold(type, Bid) THEN Buy
    ELSE ""

\* line 509
InfoRemaining(o) == o.InitialAmount - o.FilledAmount

\* lines 507-521
InfoDetail(o) ==
    [ZeroDetail EXCEPT
       !.Exchange = Name,
       !.ID = o.OrderNumber,
       !.RemainingAmount = InfoRemaining(o),
       !.ExecutedAmount = o.FilledAmount,
       !.Amount = o.InitialAmount,
       !.OrderDate = TimeUnix(o.Timestamp, 0),
       !.Status = o.Status,
       !.Price = o.Rate,
       !.CurrencyPair = NewPairFromString(o.CurrencyPair),
       !.OrderSide = InfoSide(o.Type)]

\* line 501: the error returned when the open orders cannot be fetched
GetOrderInfoError(e) == ErrFailedToGetOpenOrders

\* lines 497-525
GetOrderInfo(OO) ==
    /\ pc = "idle"
    /\ op' = "GetOrderInfo"
    /\ probes' = 0
    /\ path' = "rest"
    /\ wsReqs' = <<>>
    /\ restReqs' = <<"GetOpenOrders">>
    /\ pubs' = <<>>
    /\ \E orderID \in {"1", "2"}, resp \in OO :
         /\ req' = [orderID |-> orderID]
         /\ rawIn' = <<resp>>
         /\ IF resp.err # ErrNil
              THEN /\ ret' = ZeroDetail
                   /\ err' = GetOrderInfoError(resp.err)
            ELSE IF \E x \in 1..Len(resp.Orders) : resp.Orders[x].OrderNumber = orderID
              THEN LET x == CHOOSE x \in 1..Len(resp.Orders) :
                              /\ resp.Orders[x].OrderNumber = orderID
                              /\ \A y \in 1..(x - 1) : resp.Orders[y].OrderNumber # orderID
                   IN  /\ ret' = InfoDetail(resp.Orders[x])
                       /\ err' = ErrNil
            ELSE /\ ret' = ZeroDetail
                 /\ err' = ErrNoOrderFound
    /\ UNCHANGED <<calls, wsUsable, tickerCache, obCache, acctCache, pc>>
    /\ orders' = <<>>
    /\ i' = 0

\* lines 486-491: the response, with the error text of each pair whose cancel failed
CancelAllStatus(outcome) ==
    [Status |-> [u \in {u \in DOMAIN outcome : outcome[u] # ErrNil} |-> outcome[u]]]

\* lines 481-484: the pairs that have open orders
UniqueSymbols(os) == {os[x].CurrencyPair : x \in 1..Len(os)}

\* lines 472-494; outcome gives, per pair, what CancelAllExistingOrders returns,
\* and syms the order in which the pairs are visited
CancelAllOrders(OO) ==
    /\ pc = "idle"
    /\ op' = "CancelAllOrders"
    /\ probes' = 0
    /\ path' = "rest"
    /\ wsReqs' = <<>>
    /\ pubs' = <<>>
    /\ req' = <<>>
    /\ \E openOrders \in OO :
         IF openOrders.err # ErrNil
           THEN /\ ret' = [Status |-> <<>>]
                /\ err' = openOrders.err
                /\ restReqs' = <<"GetOpenOrders">>
                /\ rawIn' = <<openOrders>>
           ELSE \E outcome \in [UniqueSymbols(openOrders.Orders) ->
                                  {ErrNil} \cup TransportErrors] :
                  \E syms \in Orderings(DOMAIN outcome) :
                    /\ restReqs' = <<"GetOpenOrders">>
                         \o [k \in 1..Len(syms) |-> "CancelAllExistingOrders"]
                    /\ rawIn' = <<openOrders>>
                         \o [k \in 1..Len(syms) |-> [err |-> outcome[syms[k]], unique |-> syms[k]]]
                    /\ ret' = CancelAllStatus(outcome)
                    /\ err' = ErrNil
    /\ UNCHANGED <<calls, wsUsable, tickerCache, obCache, acctCache, pc>>
    /\ orders' = <<>>
    /\ i' = 0

\* trades of the model
Trade(type) ==
    [OrderID |-> 3, Pair |-> "btc_usdt", Type |-> type, Rate |-> 1,
     Amount |-> MaxAmount, TimeUnix |-> 2]

\* what GetTradeHistory may return over the trades T
TradeHistoryResponses(T) ==
    {[err |-> e, Trades |-> <<>>] : e \in TransportErrors}
      \cup {[err |-> ErrNil, Trades |-> ts] : ts \in SeqsUpTo(T, 1)}

\* lines 667-679
TradeDetail(trade) ==
    [ZeroDetail EXCEPT
       !.ID = FormatInt(trade.OrderID),
       !.Amount = trade.Amount,
       !.Price = trade.Rate,
       !.OrderDate = TimeUnix(trade.TimeUnix, 0),
       !.OrderSide = RestSide(trade.Type),
       !.Exchange = Name,
       !.CurrencyPair = NewPairFromString(trade.Pair)]

RECURSIVE TradeFetchLoop(_, _, _)
\* lines 657-663: one fetch per currency, stopping at the first error
TradeFetchLoop(resps, k, st) ==
    IF k > Len(resps) THEN st
    ELSE IF resps[k].err # ErrNil
      THEN [err |-> resps[k].err, trades |-> <<>>, fetches |-> st.fetches + 1]
    ELSE TradeFetchLoop(resps, k + 1,
                        [err |-> ErrNil, trades |-> st.trades \o resps[k].Trades,
                         fetches |-> st.fetches + 1])

RECURSIVE TradeLoop(_)
\* lines 666-680
TradeLoop(trades) ==
    IF trades = <<>> THEN <<>>
    ELSE <<TradeDetail(Head(trades))>> \o TradeLoop(Tail(trades))

\* lines 655-685; resps gives, per currency of the request, what GetTradeHistory returns
GetOrderHistory(T) ==
    /\ pc = "idle"
    /\ op' = "GetOrderHistory"
    /\ probes' = 0
    /\ path' = "rest"
    /\ wsReqs' = <<>>
    /\ pubs' = <<>>
    /\ \E r \in OrdersRequests, n \in 1..2 :
         \E resps \in [1..n -> TradeHistoryResponses(T)] :
           LET f == TradeFetchLoop(resps, 1, [err |-> ErrNil, trades |-> <<>>, fetches |-> 0])
           IN  /\ req' = r
               /\ rawIn' = SubSeq(resps, 1, f.fetches)
               /\ restReqs' = [k \in 1..f.fetches |-> "GetTradeHistory"]
               /\ err' = f.err
               /\ ret' = IF f.err # ErrNil THEN <<>>
                         ELSE FilterOrders(TradeLoop(f.trades), r)
    /\ UNCHANGED <<calls, wsUsable, tickerCache, obCache, acctCache, pc>>
    /\ orders' = <<>>
    /\ i' = 0

\* the channel connects or disconnects between the wrapper's steps
ChannelChanges ==
    /\ wsUsable' = ~wsUsable
    /\ UNCHANGED <<calls, tickerCache, obCache, acctCache, op, ret, err, probes, path,
                   wsReqs, restReqs, pubs, pc, orders, i, req, rawIn>>

(***************************************************************************)
(* Concurrent refreshes: each caller runs UpdateOrderbook or                *)
(* UpdateAccountInfo step by step; the steps of different callers           *)
(* interleave at the calls into the shared stores.                          *)
(***************************************************************************)
Callers == 1..NumCallers

\* a caller outside any call
IdleCall ==
    [pc |-> "idle", kind |-> "none", raw |-> [err |-> ErrNil], local |-> ZeroHoldings,
     npub |-> 0]

\* what GetOrderbook may return: the snapshots of the book, told apart by n
SnapshotTags == {1, 2}
BookResponses ==
    {[err |-> e, Bids |-> <<>>, Asks |-> <<>>] : e \in TransportErrors}
      \cup {[err |-> ErrNil, Bids |-> <<[Price |-> 1, Amount |-> n]>>,
             Asks |-> <<[Price |-> 2, Amount |-> n]>>] : n \in SnapshotTags}

\* what wsGetBalance and GetBalances may return
HoldingsWsResponses ==
    {[err |-> e, Result |-> <<>>] : e \in TransportErrors}
      \cup {[err |-> ErrNil, Result |-> [k \in {"BTC"} |-> [Available |-> 2, Freeze |-> 0]]]}
HoldingsRestResponses ==
    {[err |-> e, Locked |-> [isMap |-> FALSE, m |-> <<>>],
      Available |-> [isMap |-> FALSE, m |-> <<>>]] : e \in TransportErrors}
      \cup {[err |-> ErrNil,
             Locked |-> [isMap |-> TRUE, m |-> [k \in {"BTC"} |-> "1"]],
             Available |-> [isMap |-> TRUE, m |-> [k \in {"BTC", "ETH"} |-> "1"]]]}

\* the pair whose book the callers refresh
BookPair == [Base |-> "BTC", Quote |-> "USDT", Delimiter |-> "_"]

\* orderbook.Base.Process: the store replaces the entry of the book's pair
ProcessOrderbook(cache, book) ==
    [cache EXCEPT ![PairKey(book.Pair)] = [found |-> TRUE, v |-> book]]

\* account.Process: the store replaces the holdings of the exchange
ProcessHoldings(cache, info) == [found |-> TRUE, v |-> info]

OrderbookLocal_BidsOnly(orderbookNew, p) ==
    [Pair |-> p, ExchangeName |-> Name, AssetType |-> "spot",
     Bids |-> CopyLevels(orderbookNew.Bids), Asks |-> <<>>]

\* lines 276-300: the local orderBook, complete
OrderbookLocal(orderbookNew, p) ==
    [Pair |-> p, ExchangeName |-> Name, AssetType |-> "spot",
     Bids |-> CopyLevels(orderbookNew.Bids), Asks |-> CopyLevels(orderbookNew.Asks)]

\* what the concurrent steps leave alone
SequentialUnchanged ==
    UNCHANGED <<wsUsable, tickerCache, probes, path, wsReqs, restReqs, pubs, pc,
                orders, i, req, rawIn>>

\* a caller's call returns
Returns(c, name, value, error) ==
    /\ calls' = [calls EXCEPT ![c] = IdleCall]
    /\ op' = name
    /\ ret' = value
    /\ err' = error

\* lines 275-300: caller c fetches the book and builds its local value
OrderbookCallFetch(c) ==
    /\ calls[c].pc = "idle"
    /\ \E orderbookNew \in BookResponses :
         IF orderbookNew.err # ErrNil
           THEN Returns(c, "UpdateOrderbook", ZeroOrderbook, orderbookNew.err)
           ELSE /\ calls' = [calls EXCEPT ![c] =
                               [pc |-> "built", kind |-> "orderbook", raw |-> orderbookNew,
                                local |-> OrderbookLocal(orderbookNew, BookPair),
                                npub |-> 0]]
                /\ UNCHANGED <<op, ret, err>>
    /\ UNCHANGED <<obCache, acctCache>>
    /\ SequentialUnchanged

\* lines 302-305: caller c hands its local value to the store, which replaces
\* the entry of the pair or rejects the value
OrderbookCallProcess(c) ==
    /\ calls[c].pc = "built"
    /\ calls[c].kind = "orderbook"
    /\ \E cacheOk \in BOOLEAN :
         IF cacheOk
           THEN /\ obCache' = ProcessOrderbook(obCache, calls[c].local)
                /\ calls' = [calls EXCEPT ![c].pc = "stored", ![c].npub = 1]
                /\ UNCHANGED <<op, ret, err>>
           ELSE /\ Returns(c, "UpdateOrderbook", calls[c].local, ErrOrderbookProcess)
                /\ UNCHANGED obCache
    /\ UNCHANGED acctCache
    /\ SequentialUnchanged

\* line 307: caller c reads the entry of the pair back and returns it
OrderbookCallGet(c) ==
    /\ calls[c].pc = "stored"
    /\ LET got == GetOrderbookCached(obCache, calls[c].local.Pair)
       IN  Returns(c, "UpdateOrderbook", got.v, got.err)
    /\ UNCHANGED <<obCache, acctCache>>
    /\ SequentialUnchanged

\* lines 312-387: caller c probes the channel, fetches the balances and builds
\* its local holdings
AccountCallFetch(c) ==
    /\ calls[c].pc = "idle"
    /\ \E raw \in IF CanUseAuthenticatedWebsocketForWrapper
                    THEN HoldingsWsResponses ELSE HoldingsRestResponses :
         \E r \in IF CanUseAuthenticatedWebsocketForWrapper
                    THEN {WsAccount(raw, keys) : keys \in Orderings(DOMAIN raw.Result)}
                    ELSE {RestAccount(raw, lkeys, akeys) :
                            lkeys \in Orderings(DOMAIN raw.Locked.m),
                            akeys \in Orderings(DOMAIN raw.Available.m)} :
           IF ~r.done
             THEN Returns(c, "UpdateAccountInfo", r.info, r.err)
             ELSE /\ calls' = [calls EXCEPT ![c] =
                                 [pc |-> "built", kind |-> "account", raw |-> raw,
                                  local |-> [r.info EXCEPT !.Exchange = Name],
                                  npub |-> 0]]
                  /\ UNCHANGED <<op, ret, err>>
    /\ UNCHANGED <<obCache, acctCache>>
    /\ SequentialUnchanged

\* lines 388-393: caller c hands its holdings to the store, which replaces the
\* holdings of the exchange or rejects them, and returns
AccountCallProcess(c) ==
    /\ calls[c].pc = "built"
    /\ calls[c].kind = "account"
    /\ \E cacheOk \in BOOLEAN :
         IF cacheOk
           THEN /\ acctCache' = ProcessHoldings(acctCache, calls[c].local)
                /\ Returns(c, "UpdateAccountInfo", calls[c].local, ErrNil)
           ELSE /\ Returns(c, "UpdateAccountInfo", ZeroHoldings, ErrAccountProcess)
                /\ UNCHANGED acctCache
    /\ UNCHANGED obCache
    /\ SequentialUnchanged

(***************************************************************************)
(* Specifications.                                                         *)
(***************************************************************************)
Init ==
    /\ wsUsable \in BOOLEAN
    /\ tickerCache = [k \in PairKeys |-> NoTicker]
    /\ obCache = [k \in PairKeys |-> NoOrderbook]
    /\ acctCache = NoHoldings
    /\ op = "none"
    /\ ret = <<>>
    /\ err = ErrNil
    /\ probes = 0
    /\ path = "none"
    /\ wsReqs = <<>>
    /\ restReqs = <<>>
    /\ pubs = <<>>
    /\ pc = "idle"
    /\ orders = <<>>
    /\ i = 0
    /\ req = <<>>
    /\ rawIn = <<>>
    /\ calls = [c \in Callers |-> IdleCall]

\* inputs of the account operations
AccountStrings == {FormatInt(MaxAmount), "abc"}

NextAccount ==
    \/ ChannelChanges
    \/ UpdateAccountInfo(WsBalanceResponses(CurrencyNames, {1}, {0, MaxAmount}),
                         RestBalanceResponses(CurrencyNames, AccountStrings))

\* the account refresh, over every shape of the balance payloads
SpecAccount == Init /\ [][NextAccount]_vars

\* inputs of the order operations
OpenOrders ==
    {OpenOrder("1", "Sell", "open", 1), OpenOrder("1", "hold", "open", 0),
     OpenOrder("2", "buy", "open", MaxAmount), OpenOrder("2", "ask", "cancelled", 1),
     OpenOrder("1", "bid", "open", 1)}
Trades == {Trade(type) : type \in {"buy", "sell", "hold"}}
FullPageRecords == {WsSellLimit, WsUnknown}
ShortPageRecords ==
    {<<WsSellLimit, WsSellLimit>>, <<WsBuyMarket, WsBuyMarket>>,
     <<WsUnknown, WsUnknown>>, <<WsSellLimit, WsBadTime>>}

NextOrders ==
    \/ ChannelChanges
    \/ GetActiveOrdersBegin(OpenOrdersResponses(OpenOrders))
    \/ GetActiveOrdersPage(FullPageRecords, ShortPageRecords)
    \/ GetOrderInfo(OpenOrdersResponses(OpenOrders))
    \/ CancelAllOrders(OpenOrdersResponses(OpenOrders))
    \/ GetOrderHistory(Trades)

\* the order operations, over every shape of the order payloads
SpecOrders == Init /\ [][NextOrders]_vars

\* inputs of the ticker operations
BtcUsdt == [Base |-> "BTC", Quote |-> "USDT", Delimiter |-> "_"]
TickerKeys == {"BTC_USDT", "eth_btc"}
TickerPairs ==
    {[Base |-> "btc", Quote |-> "usdt", Delimiter |-> "_"],
     [Base |-> "ETH", Quote |-> "BTC", Delimiter |-> "_"]}

NextTicker ==
    \/ UpdateTicker({BtcUsdt}, TickerResponses(TickerKeys, {TickerEntryA, TickerEntryB}),
                    EnabledPairLists(TickerPairs))
    \/ FetchTicker({BtcUsdt}, TickerResponses(TickerKeys, {TickerEntryA, TickerEntryB}),
                   EnabledPairLists(TickerPairs))

\* the ticker operations, over the casings of raw keys and enabled pairs
SpecTicker == Init /\ [][NextTicker]_vars

\* inputs of the whole facade
FacadeTickers == TickerResponses({"btc_usdt"}, {TickerEntryA})
FacadePairLists == EnabledPairLists({BtcUsdt})
FacadeOrderbooks == OrderbookResponses({<<[Price |-> 1, Amount |-> 2]>>})
FacadeWsBalances == WsBalanceResponses({"BTC"}, {1}, {1})
FacadeRestBalances ==
    {b \in RestBalanceResponses({"BTC"}, {"1"}) :
       b.err = ErrNil => (b.Locked.isMap /\ b.Available.isMap)}
FacadeOpenOrders == OpenOrdersResponses({OpenOrder("1", "Sell", "open", 1)})

Next ==
    \/ ChannelChanges
    \/ UpdateTicker({BtcUsdt}, FacadeTickers, FacadePairLists)
    \/ FetchTicker({BtcUsdt}, FacadeTickers, FacadePairLists)
    \/ UpdateOrderbook({BtcUsdt}, FacadeOrderbooks)
    \/ FetchOrderbook({BtcUsdt}, FacadeOrderbooks)
    \/ UpdateAccountInfo(FacadeWsBalances, FacadeRestBalances)
    \/ FetchAccountInfo(FacadeWsBalances, FacadeRestBalances)
    \/ GetFundingHistory
    \/ GetExchangeHistory
    \/ ModifyOrder
    \/ WithdrawFiatFunds
    \/ WithdrawFiatFundsToInternationalBank
    \/ GetActiveOrdersBegin(FacadeOpenOrders)
    \/ GetActiveOrdersPage({WsSellLimit}, {<<WsSellLimit, WsSellLimit>>})

\* the whole facade, over small payloads
Spec == Init /\ [][Next]_vars

NextConcurrent ==
    \/ ChannelChanges
    \/ \E c \in Callers : OrderbookCallFetch(c)
    \/ \E c \in Callers : OrderbookCallProcess(c)
    \/ \E c \in Callers : OrderbookCallGet(c)
    \/ \E c \in Callers : AccountCallFetch(c)
    \/ \E c \in Callers : AccountCallProcess(c)

\* refreshes of the order book and of the account, running concurrently
SpecConcurrent == Init /\ [][NextConcurrent]_vars

(***************************************************************************)
(* Properties.                                                             *)
(***************************************************************************)
\* the error kinds of the design that the wrapper has no value for
ErrUnrecognizedEnum == "UnrecognizedEnum"

\* the call made last has returned
Returned == pc = "idle" /\ op # "none"

\* the keys and the amounts of a Locked / Available field
FieldKeys(f) == IF f.isMap THEN DOMAIN f.m ELSE {}
FieldAmount(f, k) == IF k \in FieldKeys(f) THEN ParseFloat(f.m[k]).val ELSE 0
FieldParses(f) == \A k \in FieldKeys(f) : ParseFloat(f.m[k]).err = ErrNil

\* a refresh of the account over REST that succeeded: its payload arrived and
\* parses, and the holdings were stored
RestRefreshParsed ==
    /\ op = "UpdateAccountInfo"
    /\ path = "rest"
    /\ err = ErrNil
    /\ rawIn[1].err = ErrNil
    /\ FieldParses(rawIn[1].Locked)
    /\ FieldParses(rawIn[1].Available)

\* C1: on the REST path of UpdateAccountInfo, every currency of the union of
\* the locked and available maps has exactly one balance record, with
\* hold = locked(k), total = hold + available(k) (missing entries counting 0),
\* hence total >= hold; and no other record is produced.
C1_Reconciliation ==
    RestRefreshParsed =>
      LET b == rawIn[1]
          keys == FieldKeys(b.Locked) \cup FieldKeys(b.Available)
          bal == ret.Accounts[1].Currencies
      IN  /\ \A k \in keys :
                Cardinality({j \in 1..Len(bal) : bal[j].CurrencyName = k}) = 1
          /\ \A j \in 1..Len(bal) :
                /\ bal[j].CurrencyName \in keys
                /\ bal[j].Hold = FieldAmount(b.Locked, bal[j].CurrencyName)
                /\ bal[j].TotalValue =
                     bal[j].Hold + FieldAmount(b.Available, bal[j].CurrencyName)
                /\ bal[j].TotalValue >= bal[j].Hold

\* remaining = amount - executed, and not negative
RemainingDerived(o) ==
    /\ o.RemainingAmount = o.Amount - o.ExecutedAmount
    /\ o.RemainingAmount >= 0

\* C2: every order returned by GetActiveOrders (websocket and REST path) and
\* by GetOrderInfo has remaining = initial amount - executed amount >= 0.
C2_RemainingAmount ==
    (Returned /\ err = ErrNil) =>
      /\ op = "GetActiveOrders" => \A j \in 1..Len(ret) : RemainingDerived(ret[j])
      /\ op = "GetOrderInfo" => RemainingDerived(ret)

\* the codes of the known set
KnownWsCode(c) == c \in {0, 1}
KnownRestType(t) == ToUpper(t) \in {Buy, Sell, Ask, Bid}

\* the call was given a record whose side or type code is outside the known set
UnknownCodeRead ==
    \/ /\ op = "GetActiveOrders"
       /\ path = "ws"
       /\ \E k \in 1..Len(rawIn) :
            /\ rawIn[k].err = ErrNil
            /\ \E j \in 1..Len(rawIn[k].records) :
                 \/ ~KnownWsCode(rawIn[k].records[j].Type)
                 \/ ~KnownWsCode(rawIn[k].records[j].OrderType)
    \/ /\ op = "GetActiveOrders"
       /\ path = "rest"
       /\ rawIn[1].err = ErrNil
       /\ \E j \in 1..Len(rawIn[1].Orders) :
            /\ rawIn[1].Orders[j].Status = "open"
            /\ ~KnownRestType(rawIn[1].Orders[j].Type)
    \/ /\ op = "GetOrderInfo"
       /\ rawIn[1].err = ErrNil
       /\ \E j \in 1..Len(rawIn[1].Orders) :
            /\ rawIn[1].Orders[j].OrderNumber = req.orderID
            /\ ~KnownRestType(rawIn[1].Orders[j].Type)
    \/ /\ op = "GetOrderHistory"
       /\ \E k \in 1..Len(rawIn) :
            /\ rawIn[k].err = ErrNil
            /\ \E j \in 1..Len(rawIn[k].Trades) : ~KnownRestType(rawIn[k].Trades[j].Type)

\* C3: a side or type code outside the known set makes the whole call fail
\* with UnrecognizedEnum (no record with a defaulted or unknown side is returned).
C3_UnknownCodeFails ==
    (Returned /\ UnknownCodeRead) => err = ErrUnrecognizedEnum

\* C5: a transport error given to a call is the error the call returns, and no
\* request follows the failed one.
C5_TransportErrorVerbatim ==
    Returned =>
      \A k \in 1..Len(rawIn) :
        rawIn[k].err \in TransportErrors => (err = rawIn[k].err /\ k = Len(rawIn))

\* C7: when a page fetch of the websocket branch of GetActiveOrders fails, the
\* call returns the error and no order records.
C7_ErrorDiscardsPages ==
    (Returned /\ op = "GetActiveOrders" /\ path = "ws" /\ err \in TransportErrors)
      => ret = <<>>

\* the operations Gate.io does not offer through the wrapper
UnsupportedOps ==
    {"GetFundingHistory", "GetExchangeHistory", "ModifyOrder", "WithdrawFiatFunds",
     "WithdrawFiatFundsToInternationalBank"}

\* the call made no probe, no request and no publish, and returned nothing
NothingDone ==
    /\ ret \in {<<>>, ""}
    /\ probes = 0
    /\ wsReqs = <<>>
    /\ restReqs = <<>>
    /\ pubs = <<>>

CachedReads == {"FetchTicker", "FetchOrderbook", "FetchAccountInfo"}
Entry(name, r, tc, oc, ac) ==
    CASE name = "FetchTicker" -> tc[PairKey(r.p)]
      [] name = "FetchOrderbook" -> oc[PairKey(r.p)]
      [] name = "FetchAccountInfo" -> ac

\* a step that is a call of the operation name
CallOf(name) == pc = "idle" /\ wsUsable' = wsUsable /\ op' = name

\* C6 (as amended): a cached read whose entry is present returns it with no
\* fetch, no publish and no change of the caches; a read whose entry is absent
\* makes exactly one fetch, and if it returns no error the value it returns is
\* the entry now stored, while if it returns an error the entry is still
\* absent; and the caches change in no step but a read or a refresh.
C6_CachedRead ==
    [][/\ \A name \in CachedReads :
            CallOf(name) =>
              LET before == Entry(name, req', tickerCache, obCache, acctCache)
                  after == Entry(name, req', tickerCache', obCache', acctCache')
              IN  IF before.found
                    THEN /\ ret' = before.v
                         /\ err' = ErrNil
                         /\ wsReqs' = <<>> /\ restReqs' = <<>> /\ pubs' = <<>>
                         /\ UNCHANGED <<tickerCache, obCache, acctCache>>
                    ELSE /\ Len(wsReqs') + Len(restReqs') = 1
                         /\ err' = ErrNil => (after.found /\ ret' = after.v)
                         /\ err' # ErrNil => ~after.found
       /\ tickerCache' # tickerCache => op' \in {"UpdateTicker", "FetchTicker"}
       /\ obCache' # obCache => op' \in {"UpdateOrderbook", "FetchOrderbook"}
       /\ acctCache' # acctCache => op' \in {"UpdateAccountInfo", "FetchAccountInfo"}
      ]_vars

\* FetchAccountInfo served from the cache
C6_Witness ==
    /\ op = "FetchAccountInfo"
    /\ acctCache.found
    /\ ret = acctCache.v
    /\ path = "none"
    /\ wsReqs = <<>>
    /\ restReqs = <<>>
    /\ pubs = <<>>

\* C6 as stated: the refresh of a read that missed is stored before the call
\* returns, so that the next read of the key is a hit.
C6_MissIsStored ==
    (op \in CachedReads /\ Len(wsReqs) + Len(restReqs) > 0)
      => Entry(op, req, tickerCache, obCache, acctCache).found

\* the raw keys that are the counterpart of an enabled pair
Counterparts(result, pair) ==
    {k \in DOMAIN result : ToUpper(k) = ToUpper(PairString(pair))}

\* a refresh of the tickers whose payload arrived
TickersArrived ==
    /\ op \in {"UpdateTicker", "FetchTicker"}
    /\ restReqs = <<"GetTickers">>
    /\ rawIn[1].err = ErrNil

WsPaging == op = "GetActiveOrders" /\ path = "ws"

\* the sizes of the pages fetched so far (-1 for a fetch that failed)
Gots == [k \in 1..Len(wsReqs) |-> wsReqs[k].got]

\* the request asks for no filtering
Unfiltered(r) == r.OrderSide = "" /\ r.StartTicks.zero /\ r.EndTicks.zero

\* C9: the websocket loop of GetActiveOrders asks for 100 records at offsets
\* 0, 100, 200, ...; it goes on exactly while every page so far held 100
\* records and makes no fetch after a shorter page or an error; absent errors
\* it collects the records of all the pages: sizes 100, 100, 37 give 3 fetches
\* and 237 records, sizes 100, 100, 100, 0 give 4 fetches and 300 records.
C9_Pagination ==
    WsPaging =>
      /\ \A k \in 1..Len(wsReqs) :
           /\ wsReqs[k].method = "order.query"
           /\ wsReqs[k].offset = 100 * (k - 1)
           /\ wsReqs[k].limit = 100
           /\ k < Len(wsReqs) => Gots[k] = 100
      /\ pc = "paging" =>
           /\ \A k \in 1..Len(wsReqs) : Gots[k] = 100
           /\ i = 100 * Len(wsReqs)
           /\ Len(orders) = 100 * Len(wsReqs)
      /\ pc = "idle" =>
           /\ Len(wsReqs) >= 1
           /\ Gots[Len(wsReqs)] < 100
           /\ err = ErrNil =>
                /\ Gots[Len(wsReqs)] >= 0
                /\ Len(orders) = 100 * (Len(wsReqs) - 1) + Gots[Len(wsReqs)]
                /\ Unfiltered(req) => ret = orders
                /\ Gots = <<100, 100, 37>> => Len(orders) = 237
                /\ Gots = <<100, 100, 100, 0>> => Len(orders) = 300

\* pages of 100, 100, 100 and 0 records: four fetches, 300 records returned
C9_Witness ==
    /\ WsPaging
    /\ pc = "idle"
    /\ err = ErrNil
    /\ Gots = <<100, 100, 100, 0>>
    /\ Unfiltered(req)
    /\ Len(ret) = 300

\* the operations that choose between the websocket and REST
ProbingOps == {"UpdateAccountInfo", "GetActiveOrders"}

\* C10: UpdateAccountInfo and GetActiveOrders probe the capability once per
\* call, take the path the channel's state at the call gives (whatever an
\* earlier call took), keep it until they return, and issue requests on that
\* path only, also when it fails.
C10_ProbeOncePerCall ==
    /\ [](op \in ProbingOps =>
            /\ probes = 1
            /\ path \in {"ws", "rest"}
            /\ path = "ws" => restReqs = <<>>
            /\ path = "rest" => (wsReqs = <<>> /\ Len(restReqs) = 1))
    /\ [][/\ \A name \in ProbingOps :
               CallOf(name) => path' = IF wsUsable THEN "ws" ELSE "rest"
          /\ pc = "paging" => (path' = path /\ probes' = probes /\ op' = op)]_vars

\* GetActiveOrders, begun on the websocket, failed on its second page after
\* the channel went down: no REST request was made
C10_Witness ==
    /\ op = "GetActiveOrders"
    /\ path = "ws"
    /\ pc = "idle"
    /\ ~wsUsable
    /\ probes = 1
    /\ Len(wsReqs) = 2
    /\ err \in TransportErrors
    /\ restReqs = <<>>

\* the REST balance payload arrived and one of its amounts does not parse
UnparseableAmount(b) ==
    /\ b.err = ErrNil
    /\ ~(FieldParses(b.Locked) /\ FieldParses(b.Available))

\* C11: when an amount string of the locked or the available map of the REST
\* balance payload does not parse, UpdateAccountInfo returns the parse error
\* and holdings without any balance record (none of those parsed before the
\* bad entry), hands nothing to the account store, and leaves the stored
\* holdings as they were.
C11_UnparseableAmountFails ==
    [][(CallOf("UpdateAccountInfo") /\ path' = "rest" /\ UnparseableAmount(rawIn'[1]))
         => /\ err' = ErrParseFloat
            /\ ret' = ZeroHoldings
            /\ ret'.Accounts = <<>>
            /\ pubs' = <<>>
            /\ acctCache' = acctCache]_vars

\* a refresh failed on "abc" next to an amount that parses, with holdings of an
\* earlier refresh in the store
C11_Witness ==
    /\ op = "UpdateAccountInfo"
    /\ path = "rest"
    /\ UnparseableAmount(rawIn[1])
    /\ rawIn[1].Locked.isMap
    /\ \E k \in DOMAIN rawIn[1].Locked.m : ParseFloat(rawIn[1].Locked.m[k]).err = ErrNil
    /\ \E k \in DOMAIN rawIn[1].Locked.m : rawIn[1].Locked.m[k] = "abc"
    /\ err = ErrParseFloat
    /\ ret.Accounts = <<>>
    /\ pubs = <<>>
    /\ acctCache.found

\* the book as one GetOrderbook response gives it, in full
WholeBook(v) ==
    /\ v.Pair = BookPair
    /\ v.ExchangeName = "GateIO"
    /\ \E n \in SnapshotTags :
         /\ v.Bids = <<[Price |-> 1, Amount |-> n]>>
         /\ v.Asks = <<[Price |-> 2, Amount |-> n]>>

\* the holdings as one balance response gives them, in full: those of the
\* websocket response, or those of the REST response
WholeHoldings(v) ==
    /\ v.Exchange = "GateIO"
    /\ Len(v.Accounts) = 1
    /\ v.Accounts[1].Currencies \in
         {<<[CurrencyName |-> "BTC", TotalValue |-> 2, Hold |-> 0]>>,
          <<[CurrencyName |-> "BTC", TotalValue |-> 2, Hold |-> 1],
            [CurrencyName |-> "ETH", TotalValue |-> 1, Hold |-> 0]>>}

\* caller c publishes in this step: its one publish, of the value it built
\* from a fetch that succeeded
PublishBy(c) ==
    /\ calls[c].pc = "built"
    /\ calls[c].npub = 0
    /\ calls[c].raw.err = ErrNil
    /\ calls'[c].pc \in {"stored", "idle"}
    /\ \A d \in Callers \ {c} : calls'[d] = calls[d]
    /\ \/ /\ calls[c].kind = "orderbook"
          /\ WholeBook(calls[c].local)
          /\ obCache' = [obCache EXCEPT ![PairKey(BookPair)] =
                           [found |-> TRUE, v |-> calls[c].local]]
          /\ acctCache' = acctCache
       \/ /\ calls[c].kind = "account"
          /\ WholeHoldings(calls[c].local)
          /\ acctCache' = [found |-> TRUE, v |-> calls[c].local]
          /\ obCache' = obCache

\* a call returns in this step: at once from a failed fetch, or from a later step
ReturnStep ==
    /\ wsUsable' = wsUsable
    /\ \/ calls' = calls
       \/ \E c \in Callers : calls[c].pc # "idle" /\ calls'[c].pc = "idle"

\* C12: however the steps of concurrent UpdateOrderbook and UpdateAccountInfo
\* calls interleave, the stores change only by the single publish of a call
\* whose fetch succeeded, of the value the call built in full on its own; so
\* the stored book and the stored holdings are always those of one response,
\* and a call that returns an error leaves the stores as they were.
C12_WholeSnapshots ==
    /\ [](/\ obCache[PairKey(BookPair)].found => WholeBook(obCache[PairKey(BookPair)].v)
          /\ acctCache.found => WholeHoldings(acctCache.v)
          /\ \A c \in Callers : calls[c].npub <= 1)
    /\ [][/\ (obCache' # obCache \/ acctCache' # acctCache)
               => \E c \in Callers : PublishBy(c)
          /\ (ReturnStep /\ err' # ErrNil)
               => (obCache' = obCache /\ acctCache' = acctCache)]_vars

\* the store holds the book of one call's response, published and not yet read
\* back by that call, while another call has built the book of a different
\* response and not yet published it
C12_Witness ==
    /\ obCache[PairKey(BookPair)].found
    /\ obCache[PairKey(BookPair)].v.Bids[1].Amount = 1
    /\ calls[1].kind = "orderbook"
    /\ calls[1].pc = "built"
    /\ calls[1].local.Bids[1].Amount = 2
    /\ calls[2].kind = "orderbook"
    /\ calls[2].pc = "stored"
    /\ acctCache.found

====
